---- MODULE Spec2Model ----
(***************************************************************************)
(* A model of the <editable-list> web component (src/src/editable-list.js).*)
(*                                                                         *)
(* The component keeps its whole state in the shadow DOM: the <li>         *)
(* elements of ul.item-list, each with an .item-wrapper that holds either  *)
(* a text node (the item) or the <input> created by #_itemEdit, a          *)
(* "selected" class and the visibility of its Move up / Move down buttons; *)
(* the value of the add input; and the guard flag this._editing.  The      *)
(* attributes allow-duplicates, duplicate-prompt and list-item-* are read  *)
(* with getAttribute.  (The "defocused" class of the container only styles *)
(* the component and is left out.)  On a touch device every wrapper also   *)
(* has a touchend listener, a closure of #_attachDoubleTapHandler with its *)
(* own lastTap.                                                            *)
(*                                                                         *)
(* A JavaScript string is modelled as a sequence of one-character strings, *)
(* so that trim(), innerText, innerHTML and the textarea decoding of       *)
(* #_decodeHtml are computed character by character.                       *)
(***************************************************************************)
EXTENDS Integers, Sequences, FiniteSets, TLC

\* ------------------------------------------------------------------ bounds

\* The largest number of <li> elements the model lets the list hold.
MaxItems == 2
\* The largest number of list-item-* attributes on the element.
MaxInit == 1
\* The largest number of times the model lets the clock advance.
MaxTicks == 2

\* ----------------------------------------------------------------- strings

\* JavaScript null: a token that is no string of characters.
Null == <<"null">>

\* EditableList.#_duplicatePromptDefault, kept as one token.
_duplicatePromptDefault == <<"This value already exists!">>

\* The serialisation of the <input> that #_itemEdit puts in the wrapper,
\* kept as one token (it holds no character reference).
InputMarkup == <<"<input class=\"edit-list-item-input\">">>

\* The strings the user types and the host passes to the public methods:
\* the empty string, a plain value, the same value after white space, and a
\* value that is an HTML character reference.
Values == { <<>>, <<"a">>, <<" ", "a">>, <<"&", "l", "t", ";">> }

\* The values of the list-item-* attributes.
InitValues == { <<"a">> }

\* The values of the duplicate-prompt attribute (Null: attribute absent).
PromptValues == { Null, <<" ">> }

IsWhiteSpace(c) == c = " "

RECURSIVE TrimStart(_)
TrimStart(s) ==
    IF s # <<>> /\ IsWhiteSpace(Head(s)) THEN TrimStart(Tail(s)) ELSE s

RECURSIVE TrimEnd(_)
TrimEnd(s) ==
    IF s # <<>> /\ IsWhiteSpace(s[Len(s)])
    THEN TrimEnd(SubSeq(s, 1, Len(s) - 1))
    ELSE s

\* String.prototype.trim
Trim(s) == TrimStart(TrimEnd(s))

\* White-space processing of rendered text (white-space: normal): every run
\* of white space becomes one space.
RECURSIVE Collapse(_)
Collapse(s) ==
    IF s = <<>> THEN <<>>
    ELSE IF IsWhiteSpace(Head(s))
         THEN <<" ">> \o Collapse(TrimStart(s))
         ELSE <<Head(s)>> \o Collapse(Tail(s))

\* innerText of a rendered element whose only child is a text node: the
\* text as rendered, white space collapsed and removed at both ends of the
\* line.
RenderedText(text) == Trim(Collapse(text))

StartsWith(s, p) == Len(s) >= Len(p) /\ SubSeq(s, 1, Len(p)) = p

Drop(s, n) == SubSeq(s, n + 1, Len(s))

\* A following ";" belongs to the character reference.
DropSemicolon(s) == IF s # <<>> /\ Head(s) = ";" THEN Tail(s) ELSE s

\* The HTML tokenizer on character data: the named character references
\* amp, lt and gt are replaced by their characters; everything else is
\* text.  ("<" begins a tag only before a letter, "/", "!" or "?"; no value
\* of the model holds such a pair.)
RECURSIVE HtmlDecode(_)
HtmlDecode(s) ==
    IF s = <<>> THEN <<>>
    ELSE IF StartsWith(s, <<"&", "a", "m", "p">>)
         THEN <<"&">> \o HtmlDecode(DropSemicolon(Drop(s, 4)))
    ELSE IF StartsWith(s, <<"&", "l", "t">>)
         THEN <<"<">> \o HtmlDecode(DropSemicolon(Drop(s, 3)))
    ELSE IF StartsWith(s, <<"&", "g", "t">>)
         THEN <<">">> \o HtmlDecode(DropSemicolon(Drop(s, 3)))
    ELSE <<Head(s)>> \o HtmlDecode(Tail(s))

\* The HTML serialisation of a text node (reading innerHTML).
RECURSIVE HtmlEncode(_)
HtmlEncode(s) ==
    IF s = <<>> THEN <<>>
    ELSE (CASE Head(s) = "&" -> <<"&", "a", "m", "p", ";">>
            [] Head(s) = "<" -> <<"&", "l", "t", ";">>
            [] Head(s) = ">" -> <<"&", "g", "t", ";">>
            [] OTHER -> <<Head(s)>>) \o HtmlEncode(Tail(s))

\* #_decodeHtml: the value of a <textarea> whose innerHTML is html.
_decodeHtml(html) == HtmlDecode(html)

\* --------------------------------------------------------------- the <li>

\* #_itemHTML: the <li> built from the template with item spliced in as
\* HTML.  text is the text node of the wrapper; inp says whether the wrapper
\* holds the edit <input> instead, and _value is that input's _value; up
\* and down are the style.visibility of the two move buttons ("" until
\* #_updateToolbars sets them); lastTap is the variable of the double-tap
\* closure that #_handleItemListeners attaches to the wrapper on a touch
\* device (let lastTap = 0).
_itemHTML(item) ==
    [ text |-> HtmlDecode(item), inp |-> FALSE, _value |-> <<>>,
      selected |-> FALSE, up |-> "", down |-> "", lastTap |-> 0 ]

\* itemWrapper.innerText: the rendered text; an <input> renders no text.
InnerText(li) == IF li.inp THEN <<>> ELSE RenderedText(li.text)

\* itemWrapper.innerHTML, read.
InnerHTML(li) == IF li.inp THEN InputMarkup ELSE HtmlEncode(li.text)

\* #_updateToolbars
_updateToolbars(l) ==
    [ i \in 1..Len(l) |->
        [ l[i] EXCEPT !.up = IF i = 1 THEN "hidden" ELSE "visible",
                      !.down = IF i = Len(l) THEN "hidden" ELSE "visible" ] ]

\* #_cleanSelection
_cleanSelection(l) == [ i \in 1..Len(l) |-> [ l[i] EXCEPT !.selected = FALSE ] ]

\* #_liSelected without its call of #_cleanSelection.
_liSelected_NoClean(l, i) == [ l EXCEPT ![i].selected = TRUE ]

\* #_liSelected on the <li> at position i
_liSelected(l, i) ==
    [ j \in 1..Len(l) |-> [ l[j] EXCEPT !.selected = (j = i) ] ]

\* items() of a list of <li>: the map over the wrappers, in document order.
RECURSIVE ItemsOf(_)
ItemsOf(l) ==
    IF l = <<>> THEN <<>>
    ELSE <<_decodeHtml(InnerHTML(Head(l)))>> \o ItemsOf(Tail(l))

\* ---------------------------------------------------------------- the state

VARIABLES
    attrs,       \* the element's attributes: allow-duplicates, duplicate-prompt
                 \* and the values of the list-item-* attributes, in order
    lis,         \* the <li> elements of ul.item-list, in document order
    _editing,    \* this._editing
    textInput,   \* the value of input.add-new-list-item-input
    events,      \* the details of the change events the last operation dispatched
    alerts,      \* the messages the last operation showed with alert()
    last,        \* the last operation, with the index given to moveItemUp
                 \* and moveItemDown, the index of the <li> clicked or
                 \* tapped and the event given to #_addListItem
    touch        \* isTouch: the test of navigator.userAgent in
                 \* #_handleItemListeners; now: new Date().getTime();
                 \* ticks: how many times the clock has advanced

vars == <<attrs, lis, _editing, textInput, events, alerts, last, touch>>

\* new Date().getTime() when the component is constructed: milliseconds
\* since 1970, far more than the double-tap window.
Now0 == 100000

\* The double-tap window of detectDoubleTap, in milliseconds.
DoubleTapWindow == 500

\* The values of the allow-duplicates attribute (Null: attribute absent).
AllowValues == { Null, <<"f", "a", "l", "s", "e">> }

\* this.getAttribute('allow-duplicates') !== "false"
allowDuplicates == attrs.allowDuplicates # <<"f", "a", "l", "s", "e">>

\* this.getAttribute('duplicate-prompt') || EditableList.#_duplicatePromptDefault
duplicatePrompt ==
    IF attrs.duplicatePrompt = Null \/ attrs.duplicatePrompt = <<>>
    THEN _duplicatePromptDefault
    ELSE attrs.duplicatePrompt

\* if (duplicatePrompt.trim() !== "") alert(duplicatePrompt)
Alert == IF Trim(duplicatePrompt) # <<>> THEN <<duplicatePrompt>> ELSE <<>>

\* The prompt is only ever shown when a duplicate is rejected, which takes
\* allow-duplicates="false": the element has a duplicate-prompt attribute
\* only then.
PromptIsRead == allowDuplicates => attrs.duplicatePrompt = Null

\* items()
items == ItemsOf(lis)

\* Sequences over S of length at most n.
SeqsUpTo(S, n) == UNION { [1..k -> S] : k \in 0..n }

\* The indexes the host passes to the public methods: every index of the
\* list and one beyond it at either end.
Indexes == -1..MaxItems

\* #_getLiAtIndex: the position in lis of children[index], 0 for null.
_getLiAtIndex(index) == IF index >= 0 /\ index < Len(lis) THEN index + 1 ELSE 0

\* The <li> whose wrapper holds the edit input.
EditLis == { i \in 1..Len(lis) : lis[i].inp }

\* #_valueExists(newValue, item), on the wrappers of l; item is the position
\* of the excluded wrapper, 0 for null or a wrapper that is not in the list.
_valueExists(l, newValue, item) ==
    \E i \in 1..Len(l) : i # item /\ InnerText(l[i]) = newValue

\* #_changeEvent: the detail of the event.
_changeEvent(data) == data

\* ------------------------------------------------------------ construction

\* #_initialItems, #_init and connectedCallback, on a device where the test
\* of navigator.userAgent gives isTouch.
connectedCallback(isTouch) ==
    /\ attrs \in [ allowDuplicates : AllowValues,
                   duplicatePrompt : PromptValues,
                   listItems : SeqsUpTo(InitValues, MaxInit) ]
    /\ PromptIsRead
    /\ Len(attrs.listItems) <= MaxItems
    /\ lis = _updateToolbars([ i \in 1..Len(attrs.listItems) |->
                                  _itemHTML(attrs.listItems[i]) ])
    /\ _editing = FALSE
    /\ textInput = <<>>
    /\ events = <<>>
    /\ alerts = <<>>
    /\ last = [ op |-> "connectedCallback", args |-> <<>> ]
    /\ touch = [ isTouch |-> isTouch, now |-> Now0, ticks |-> 0 ]

\* The component on a device that is not a touch device.
Init == connectedCallback(FALSE)

\* ------------------------------------------------------- private operations

\* The loop of addItems followed by #_updateToolbars.
RECURSIVE AppendItems(_, _)
AppendItems(l, listItems) ==
    IF listItems = <<>> THEN l
    ELSE LET listItem == Head(listItems)
             l2 == IF allowDuplicates \/ ~_valueExists(l, listItem, 0)
                   THEN Append(l, _itemHTML(listItem))
                   ELSE l
         IN  AppendItems(l2, Tail(listItems))

\* addItems without its closing call of #_updateToolbars.
addItemsTo_NoToolbars(l, listItems) == AppendItems(l, listItems)

addItemsTo(l, listItems) == _updateToolbars(AppendItems(l, listItems))

\* #_changeItem(li, newValue, previousValue) with li at position i of l
\* (0: li is no longer in the list): the result object and the list after.
_changeItem(l, i, newValue, previousValue) ==
    LET val0 == IF Trim(newValue) = <<>> THEN previousValue ELSE newValue
        rejected == ~allowDuplicates /\ _valueExists(l, val0, i)
        val == IF rejected THEN previousValue ELSE val0
    IN  [ val |-> val,
          accepted |-> ~rejected,
          differs |-> (val # previousValue),
          lis |-> IF i = 0 THEN l
                  ELSE [ l EXCEPT ![i].text = HtmlDecode(val),
                                  ![i].inp = FALSE,
                                  ![i]._value = <<>> ] ]

\* #_moveUpListItem on the <li> at position i: insertBefore(li, prev).
_moveUpListItem(l, i) ==
    IF i <= 1 THEN l
    ELSE _updateToolbars([ l EXCEPT ![i - 1] = l[i], ![i] = l[i - 1] ])

\* #_moveDownListItem with the arguments of insertBefore exchanged:
\* insertBefore(li, next) puts li where it already is.
_moveDownListItem_ArgsExchanged(l, i) == _updateToolbars(l)

\* #_moveDownListItem on the <li> at position i: insertBefore(next, li).
_moveDownListItem(l, i) ==
    IF i >= Len(l) THEN l
    ELSE _updateToolbars([ l EXCEPT ![i + 1] = l[i], ![i] = l[i + 1] ])

\* #_removeListItem on the <li> at position i.
_removeListItem(l, i) ==
    _updateToolbars(SubSeq(l, 1, i - 1) \o SubSeq(l, i + 1, Len(l)))

\* ------------------------------------------------------------ change events

\* The detail of the event #_addListItem dispatches.
AddDetail(value) == [ action |-> "add", previous |-> Null, new |-> value ]

\* The detail of the event #_itemEditFinished dispatches.
EditDetail(previousValue, val) ==
    [ action |-> "edit", previous |-> previousValue, new |-> val ]

\* The detail of a remove event that leaves out the field new.
RemoveDetail_NoNew(val) == [ action |-> "remove", previous |-> val ]

\* The detail of the event #_removeListItemHandler dispatches.
RemoveDetail(val) == [ action |-> "remove", previous |-> val, new |-> Null ]

\* The detail of the event #_moveUpListItemEvent and #_moveDownListItemEvent
\* dispatch.
MoveDetail(direction, val) ==
    [ action |-> "move", direction |-> direction, item |-> val ]

\* ----------------------------------------------------------- public methods

\* addItems(listItems)
addItems(listItems) ==
    /\ Len(lis) + Len(listItems) <= MaxItems
    /\ lis' = addItemsTo(lis, listItems)
    /\ events' = <<>>
    /\ alerts' = <<>>
    /\ last' = [ op |-> "addItems", args |-> <<>> ]
    /\ UNCHANGED <<attrs, touch, _editing, textInput>>

\* changeItem(index, newValue)
changeItem(index, newValue) ==
    LET li == _getLiAtIndex(index)
    IN  /\ IF li = 0 \/ _editing
           THEN UNCHANGED <<lis, _editing>>
           ELSE /\ lis' = _changeItem(lis, li, newValue, InnerText(lis[li])).lis
                /\ _editing' = FALSE
        /\ events' = <<>>
        /\ alerts' = <<>>
        /\ last' = [ op |-> "changeItem", args |-> <<>> ]
        /\ UNCHANGED <<attrs, touch, textInput>>

\* What follows the removal of the <li> elements gone, with l the list left.
\* An edit input among them had the focus; whether the browser sends it a
\* blur event as it leaves the document differs between browsers, so both
\* outcomes are steps: without blur nothing else happens, with blur
\* #_itemEditFinished runs on the removed <li>.
AfterRemoval(l, gone) ==
    \/ /\ UNCHANGED _editing
       /\ events' = <<>>
       /\ alerts' = <<>>
    \/ \E i \in 1..Len(gone) : \E typed \in Values :
         /\ gone[i].inp
         /\ _editing
         /\ _editing' = FALSE
         /\ LET r == _changeItem(l, 0, typed, gone[i]._value)
            IN  /\ events' = IF r.differs
                             THEN << _changeEvent(EditDetail(gone[i]._value, r.val)) >>
                             ELSE <<>>
                /\ alerts' = IF ~r.accepted THEN Alert ELSE <<>>

\* removeItem(index)
removeItem(index) ==
    LET li == _getLiAtIndex(index)
    IN  /\ IF li = 0
           THEN UNCHANGED <<lis, _editing>> /\ events' = <<>> /\ alerts' = <<>>
           ELSE /\ lis' = _removeListItem(lis, li)
                /\ AfterRemoval(lis', <<lis[li]>>)
        /\ last' = [ op |-> "removeItem", args |-> <<>> ]
        /\ UNCHANGED <<attrs, touch, textInput>>

\* moveItemUp(index)
moveItemUp(index) ==
    LET li == _getLiAtIndex(index)
    IN  /\ lis' = IF li = 0 THEN lis ELSE _moveUpListItem(lis, li)
        /\ events' = <<>>
        /\ alerts' = <<>>
        /\ last' = [ op |-> "moveItemUp", args |-> <<index>> ]
        /\ UNCHANGED <<attrs, touch, _editing, textInput>>

\* moveItemDown(index)
moveItemDown(index) ==
    LET li == _getLiAtIndex(index)
    IN  /\ lis' = IF li = 0 THEN lis ELSE _moveDownListItem(lis, li)
        /\ events' = <<>>
        /\ alerts' = <<>>
        /\ last' = [ op |-> "moveItemDown", args |-> <<index>> ]
        /\ UNCHANGED <<attrs, touch, _editing, textInput>>

\* removeAllItems()
removeAllItems ==
    /\ lis' = <<>>
    /\ AfterRemoval(lis', lis)
    /\ last' = [ op |-> "removeAllItems", args |-> <<>> ]
    /\ UNCHANGED <<attrs, touch, textInput>>

\* unselectAllItems()
unselectAllItems ==
    /\ lis' = _cleanSelection(lis)
    /\ events' = <<>>
    /\ alerts' = <<>>
    /\ last' = [ op |-> "unselectAllItems", args |-> <<>> ]
    /\ UNCHANGED <<attrs, touch, _editing, textInput>>

\* ------------------------------------------------------------ user gestures
\* The edit input has the focus from #_itemEdit on, and it is blurred (which
\* finishes the edit) before a pointer or key event reaches anything else in
\* the page.  So the gestures on other elements have no edit input in the
\* list when they happen; the blur itself is a step of ItemEditFinished.

\* The events the add input and the Add button listen to: a click on the
\* button, the Enter key in the input, any other key in the input.
AddEvents == { "click", "Enter", "otherKey" }

\* The events an edit input listens to.
EditEvents == { "blur", "Enter", "otherKey" }

\* A click on the <li> at position i: #_liSelected.
ClickItem(i) ==
    /\ EditLis \subseteq {i}
    /\ lis' = _liSelected(lis, i)
    /\ events' = <<>>
    /\ alerts' = <<>>
    /\ last' = [ op |-> "clickItem", args |-> <<i - 1>> ]
    /\ UNCHANGED <<attrs, touch, _editing, textInput>>

\* #_itemEdit on the <li> at position i of l: the list after.
_itemEdit(l, i) ==
    [ l EXCEPT ![i].inp = TRUE, ![i]._value = InnerText(l[i]), ![i].text = <<>> ]

\* A double click on the wrapper of the <li> at position i: its two clicks
\* (#_liSelected), then dblclick (#_itemEdit).
DblClickItem(i) ==
    /\ EditLis \subseteq {i}
    /\ IF _editing
       THEN /\ lis' = _liSelected(lis, i)
            /\ UNCHANGED _editing
       ELSE /\ _editing' = TRUE
            /\ lis' = _itemEdit(_liSelected(lis, i), i)
    /\ events' = <<>>
    /\ alerts' = <<>>
    /\ last' = [ op |-> "dblClickItem", args |-> <<>> ]
    /\ UNCHANGED <<attrs, touch, textInput>>

\* #_itemEditFinished: event e on the edit input of the <li> at position i,
\* the input holding typed.
ItemEditFinished(i, e, typed) ==
    /\ i \in EditLis
    /\ IF ~_editing \/ e = "otherKey"
       THEN UNCHANGED <<lis, _editing>> /\ events' = <<>> /\ alerts' = <<>>
       ELSE LET result == _changeItem(lis, i, typed, lis[i]._value)
            IN  /\ lis' = result.lis
                /\ _editing' = FALSE
                /\ alerts' = IF ~result.accepted THEN Alert ELSE <<>>
                /\ events' = IF result.differs
                             THEN << _changeEvent(EditDetail(lis[i]._value, result.val)) >>
                             ELSE <<>>
    /\ last' = [ op |-> "itemEditFinished", args |-> <<>> ]
    /\ UNCHANGED <<attrs, touch, textInput>>

\* #_addListItem: event e with the add input holding typed (a keypress
\* reaches the handler before its character reaches the input, so the text
\* is what the user typed before the submitting event).  A click on the
\* Add button first passes the capturing listener #_cleanSelection;
\* lastChild.click() runs #_liSelected.
_addListItem(e, typed) ==
    /\ EditLis = {}
    /\ LET l0 == IF e = "click" THEN _cleanSelection(lis) ELSE lis
       IN  IF e = "otherKey"
           THEN /\ lis' = l0
                /\ UNCHANGED textInput
                /\ events' = <<>>
                /\ alerts' = <<>>
           ELSE IF Trim(typed) = <<>>
           THEN /\ lis' = l0
                /\ textInput' = typed
                /\ events' = <<>>
                /\ alerts' = <<>>
           ELSE IF ~allowDuplicates /\ _valueExists(l0, typed, 0)
           THEN /\ lis' = l0
                /\ textInput' = typed
                /\ events' = <<>>
                /\ alerts' = Alert
           ELSE LET l1 == addItemsTo(l0, <<typed>>)
                IN  /\ Len(l1) <= MaxItems
                    /\ lis' = _liSelected(l1, Len(l1))
                    /\ textInput' = <<>>
                    /\ events' = << _changeEvent(AddDetail(typed)) >>
                    /\ alerts' = <<>>
    /\ last' = [ op |-> "addListItem", args |-> <<e>> ]
    /\ UNCHANGED <<attrs, touch, _editing>>

\* A click in div.new-list-item outside the Add button: #_cleanSelection.
ClickNewItem ==
    /\ EditLis = {}
    /\ lis' = _cleanSelection(lis)
    /\ events' = <<>>
    /\ alerts' = <<>>
    /\ last' = [ op |-> "clickNewItem", args |-> <<>> ]
    /\ UNCHANGED <<attrs, touch, _editing, textInput>>

\* #_moveUpListItemEvent: a click on Move up of the <li> at position i.
_moveUpListItemEvent(i) ==
    /\ EditLis = {}
    /\ lis' = _moveUpListItem(lis, i)
    /\ events' = IF i > 1
                 THEN << _changeEvent(MoveDetail("up", _decodeHtml(InnerHTML(lis[i])))) >>
                 ELSE <<>>
    /\ alerts' = <<>>
    /\ last' = [ op |-> "moveUpClick", args |-> <<>> ]
    /\ UNCHANGED <<attrs, touch, _editing, textInput>>

\* #_moveDownListItemEvent: a click on Move down of the <li> at position i.
_moveDownListItemEvent(i) ==
    /\ EditLis = {}
    /\ lis' = _moveDownListItem(lis, i)
    /\ events' = IF i < Len(lis)
                 THEN << _changeEvent(MoveDetail("down", _decodeHtml(InnerHTML(lis[i])))) >>
                 ELSE <<>>
    /\ alerts' = <<>>
    /\ last' = [ op |-> "moveDownClick", args |-> <<>> ]
    /\ UNCHANGED <<attrs, touch, _editing, textInput>>

\* #_removeListItemHandler: a click on Remove of the <li> at position i.
_removeListItemHandler(i) ==
    /\ EditLis = {}
    /\ lis' = _removeListItem(lis, i)
    /\ events' = << _changeEvent(RemoveDetail(_decodeHtml(InnerHTML(lis[i])))) >>
    /\ alerts' = <<>>
    /\ last' = [ op |-> "removeClick", args |-> <<>> ]
    /\ UNCHANGED <<attrs, touch, _editing, textInput>>

\* ------------------------------------------------------------ specification

Next ==
    \/ \E listItems \in SeqsUpTo(Values, MaxItems) : addItems(listItems)
    \/ \E index \in Indexes : \E newValue \in Values : changeItem(index, newValue)
    \/ \E index \in Indexes : removeItem(index)
    \/ \E index \in Indexes : moveItemUp(index)
    \/ \E index \in Indexes : moveItemDown(index)
    \/ removeAllItems
    \/ unselectAllItems
    \/ \E i \in 1..Len(lis) : ClickItem(i)
    \/ \E i \in 1..Len(lis) : DblClickItem(i)
    \/ \E i \in 1..Len(lis) : \E e \in EditEvents : \E typed \in Values :
         ItemEditFinished(i, e, typed)
    \/ \E e \in AddEvents : \E typed \in Values : _addListItem(e, typed)
    \/ ClickNewItem
    \/ \E i \in 1..Len(lis) : _moveUpListItemEvent(i)
    \/ \E i \in 1..Len(lis) : _moveDownListItemEvent(i)
    \/ \E i \in 1..Len(lis) : _removeListItemHandler(i)

Spec == Init /\ [][Next]_vars

\* ------------------------------------------------------------------ claims

\* No two positions of s hold the same value.
NoDuplicates(s) == \A i, j \in DOMAIN s : i # j => s[i] # s[j]

\* Whether value is one of the elements of s.
Contains(s, value) == \E i \in DOMAIN s : s[i] = value

\* How many positions of s hold value.
Count(s, value) == Cardinality({ i \in DOMAIN s : s[i] = value })

\* s and t hold the same values the same number of times.
SameMultiset(s, t) ==
    /\ Len(s) = Len(t)
    /\ \A i \in DOMAIN s : Count(s, s[i]) = Count(t, s[i])

\* s with the values at positions i and j exchanged.
Exchanged(s, i, j) == [ s EXCEPT ![i] = s[j], ![j] = s[i] ]

\* The positions of the selected <li> elements.
Selected == { i \in 1..Len(lis) : lis[i].selected }

\* The events that submit the add input.
SubmitEvents == { "click", "Enter" }

\* C1: with allow-duplicates "false", submitting (Enter in the add input or
\* the Add button) a non-blank value equal to an existing item leaves items()
\* unchanged, shows the duplicate prompt, dispatches no change event and
\* keeps the text of the add input.
C1_DuplicateSubmitRejected ==
    [][ \A e \in SubmitEvents : \A typed \in Values :
          ( /\ _addListItem(e, typed)
            /\ ~allowDuplicates
            /\ Trim(typed) # <<>>
            /\ Contains(items, typed) )
          => ( /\ items' = items
               /\ alerts' # <<>>
               /\ events' = <<>>
               /\ textInput' = typed ) ]_vars

\* C2: with allow-duplicates "false" and pairwise distinct list-item-*
\* values, no two items of the list are equal in any reachable state.
C2_ItemsUnique ==
    (~allowDuplicates /\ NoDuplicates(attrs.listItems)) => NoDuplicates(items)

\* C3 as stated: every change event dispatched carries a detail with the
\* fields action, previous and new.
C3_EveryDetailHasPreviousAndNew ==
    \A k \in DOMAIN events :
        {"action", "previous", "new"} \subseteq DOMAIN events[k]

\* C3 as amended: every change event carries a detail with the field action;
\* the details of add, edit and remove events have exactly the fields
\* action, previous and new, and the details of move events have exactly
\* the fields action, direction and item.
C3_DetailFields ==
    \A k \in DOMAIN events :
        /\ "action" \in DOMAIN events[k]
        /\ events[k].action \in {"add", "edit", "remove", "move"}
        /\ IF events[k].action = "move"
           THEN /\ DOMAIN events[k] = {"action", "direction", "item"}
                /\ events[k].direction \in {"up", "down"}
           ELSE DOMAIN events[k] = {"action", "previous", "new"}

\* A move event and a remove event have been dispatched by the gestures.
C3_Witness ==
    \/ /\ last.op = "moveDownClick"
       /\ events # <<>>
       /\ events[1].action = "move"
    \/ /\ last.op = "removeClick"
       /\ events # <<>>
       /\ events[1].action = "remove"

\* C4: every operation that alters the sequence returned by items(), by a
\* user gesture or by a public method, dispatches a change event.
C4_ChangeEventOnEveryChange ==
    [][ items' # items => events' # <<>> ]_vars

\* C5: in every reachable state, for an index of an existing item and a
\* non-blank newValue that is not a disallowed duplicate of another item,
\* after changeItem(index, newValue) the item at index is newValue and the
\* other items and the order are unchanged.
C5_ChangeItemSetsValue ==
    [][ \A index \in Indexes : \A newValue \in Values :
          ( /\ changeItem(index, newValue)
            /\ index >= 0 /\ index < Len(items)
            /\ Trim(newValue) # <<>>
            /\ ~( /\ ~allowDuplicates
                  /\ \E j \in DOMAIN items : j # index + 1 /\ items[j] = newValue ) )
          => items' = [ items EXCEPT ![index + 1] = newValue ] ]_vars

RECURSIVE WithAccepted(_, _)
WithAccepted(its, listItems) ==
    IF listItems = <<>> THEN its
    ELSE WithAccepted(IF ~allowDuplicates /\ Contains(its, Head(listItems))
                      THEN its
                      ELSE Append(its, Head(listItems)),
                      Tail(listItems))

\* C7: addItems(listItems) leaves the existing items and their order
\* unchanged and appends the accepted values in the order given; every
\* value is accepted when duplicates are allowed, and with allow-duplicates
\* "false" a value is skipped exactly when it equals an item already in the
\* list, one appended earlier in the same call included.
C7_AddItemsAppends ==
    [][ \A listItems \in SeqsUpTo(Values, MaxItems) :
          addItems(listItems) => items' = WithAccepted(items, listItems) ]_vars

\* C8: the editing flag is set if and only if exactly one list item shows
\* its edit input.
C8_EditingFlagMatchesInput ==
    _editing <=> Cardinality(EditLis) = 1

\* C9: at most one item is selected in every reachable state; a click on an
\* item makes it the only selected item; a click in the new-item area or
\* unselectAllItems leaves no item selected; after a successful user add the
\* appended last item is the selected one.
C9_Selection ==
    /\ [](Cardinality(Selected) <= 1)
    /\ [][ /\ last'.op = "clickItem" => Selected' = {last'.args[1] + 1}
           /\ last'.op \in {"clickNewItem", "unselectAllItems"} => Selected' = {}
           /\ (last'.op = "addListItem" /\ last'.args[1] \in SubmitEvents)
              => IF Len(lis') = Len(lis) + 1
                 THEN Selected' = {Len(lis')}
                 ELSE last'.args[1] = "click" => Selected' = {} ]_vars

\* A user add has appended a second item to the list and selected it.
C9_Witness ==
    /\ last.op = "addListItem"
    /\ events # <<>>
    /\ Len(lis) >= 2
    /\ Selected = {Len(lis)}

\* C10: the Move up button of an item is hidden if and only if the item is
\* the first of the list, and its Move down button if and only if it is the
\* last.
C10_Toolbars ==
    \A i \in 1..Len(lis) :
        /\ lis[i].up = "hidden" <=> i = 1
        /\ lis[i].down = "hidden" <=> i = Len(lis)

\* A list of two items after an item was added, removed or moved.
C10_Witness ==
    /\ Len(lis) >= 2
    /\ last.op \in {"addItems", "addListItem", "removeItem", "removeClick",
                    "moveItemUp", "moveItemDown", "moveUpClick", "moveDownClick"}

\* The component with the default duplicate prompt (no duplicate-prompt
\* attribute).
InitDefaultPrompt == Init /\ attrs.duplicatePrompt = Null

SpecDefaultPrompt == InitDefaultPrompt /\ [][Next]_vars

\* ------------------------------------------------------------ touch devices

\* The milliseconds the clock advances by between two events: the least
\* step, and the step that with it spans the double-tap window.
Ticks == { 1, DoubleTapWindow - 1 }

\* The value the host adds on the touch device.
TouchValues == { <<"a">> }

\* Time passes.
Tick(d) ==
    /\ touch.ticks < MaxTicks
    /\ touch' = [ touch EXCEPT !.now = @ + d, !.ticks = @ + 1 ]
    /\ events' = <<>>
    /\ alerts' = <<>>
    /\ last' = [ op |-> "tick", args |-> <<>> ]
    /\ UNCHANGED <<attrs, lis, _editing, textInput>>

\* detectDoubleTap, the touchend listener of the wrapper of the <li> at
\* position i (the setTimeout of its else branch only clears itself).  The
\* touchend of a tap comes before the blur and the click the tap causes.
Tap(i) ==
    /\ touch.isTouch
    /\ LET curTime == touch.now
           tapLen == curTime - lis[i].lastTap
           l1 == [ lis EXCEPT ![i].lastTap = curTime ]
       IN  IF tapLen < DoubleTapWindow /\ tapLen > 0 /\ ~_editing
           THEN /\ _editing' = TRUE
                /\ lis' = _itemEdit(l1, i)
           ELSE /\ UNCHANGED _editing
                /\ lis' = l1
    /\ events' = <<>>
    /\ alerts' = <<>>
    /\ last' = [ op |-> "tap", args |-> <<i - 1>> ]
    /\ UNCHANGED <<attrs, touch, textInput>>

\* The component on a touch device, with the default duplicate prompt.
InitTouch == connectedCallback(TRUE) /\ attrs.duplicatePrompt = Null

\* The taps, the clock, and the operations that add, remove, move and edit
\* the items tapped.
NextTouch ==
    \/ \E i \in 1..Len(lis) : Tap(i)
    \/ \E d \in Ticks : Tick(d)
    \/ \E value \in TouchValues : addItems(<<value>>)
    \/ \E index \in Indexes : removeItem(index)
    \/ \E index \in Indexes : moveItemDown(index)
    \/ \E i \in 1..Len(lis) : DblClickItem(i)
    \/ \E i \in 1..Len(lis) : \E e \in EditEvents : \E typed \in TouchValues :
         ItemEditFinished(i, e, typed)

SpecTouch == InitTouch /\ [][NextTouch]_vars

\* The previous tap on the <li> at position i happened more than 0 ms and
\* less than 500 ms ago.
PreviousTapInWindow(i) ==
    /\ lis[i].lastTap # 0
    /\ touch.now - lis[i].lastTap > 0
    /\ touch.now - lis[i].lastTap < DoubleTapWindow

\* C11: on a touch device a tap on an item starts editing it if and only if
\* no edit is in progress and the previous tap on that same item happened
\* more than 0 ms and less than 500 ms earlier (so taps on two different
\* items never combine, and items added by addItems are detected alike).
C11_DoubleTapStartsEdit ==
    [][ last'.op = "tap"
        => \A i \in {last'.args[1] + 1} :
             (~lis[i].inp /\ lis'[i].inp)
             <=> (EditLis = {} /\ PreviousTapInWindow(i)) ]_vars

\* C11 with "no edit is in progress" read as "this._editing is not set".
DoubleTapStartsEditUnlessFlag ==
    [][ last'.op = "tap"
        => \A i \in {last'.args[1] + 1} :
             (~lis[i].inp /\ lis'[i].inp)
             <=> (~_editing /\ PreviousTapInWindow(i)) ]_vars

\* A double tap has started the edit of an item added by addItems.
DoubleTapWitness ==
    /\ last.op = "tap"
    /\ Len(lis) = 2
    /\ Len(attrs.listItems) <= 1
    /\ lis[2].inp

====
